---- MODULE Spec2Model ----
(***************************************************************************)
(* A model of src/src/index.ts: the UUID7Generator static utility class    *)
(* around the external uuidv7 V7Generator.                                  *)
(*                                                                         *)
(* A JavaScript string is a sequence of one-character strings (its UTF-16  *)
(* code units), so that slicing, matching and code-unit comparison are     *)
(* computed the way the engine computes them.  Every JavaScript value is a *)
(* record tagged by its type.                                              *)
(***************************************************************************)
EXTENDS Integers, Sequences, FiniteSets, TLC

(***************************************************************************)
(* Bounds of the model.                                                    *)
(***************************************************************************)
\* the largest integer count handed to createMany
MaxCount == 2
\* the number of generator invocations after which no further one is explored
MaxCalls == 3

(***************************************************************************)
(* Characters and their UTF-16 code units.                                 *)
(***************************************************************************)
DIGITS == <<"0","1","2","3","4","5","6","7","8","9">>
UPPER ==
    <<"A","B","C","D","E","F","G","H","I","J","K","L","M",
      "N","O","P","Q","R","S","T","U","V","W","X","Y","Z">>
LOWER ==
    <<"a","b","c","d","e","f","g","h","i","j","k","l","m",
      "n","o","p","q","r","s","t","u","v","w","x","y","z">>

Range(seq) == {seq[i] : i \in 1..Len(seq)}

IndexOf(seq, c) == CHOOSE i \in 1..Len(seq) : seq[i] = c

\* the characters the inputs are made of
Alphabet == Range(DIGITS) \cup Range(UPPER) \cup Range(LOWER) \cup {"-", "+", " ", "\n"}

\* the code unit of each character (ASCII)
CodeUnit ==
    [c \in Alphabet |->
        CASE c \in Range(DIGITS) -> 47 + IndexOf(DIGITS, c)
          [] c \in Range(UPPER) -> 64 + IndexOf(UPPER, c)
          [] c \in Range(LOWER) -> 96 + IndexOf(LOWER, c)
          [] c = "-" -> 45
          [] c = "+" -> 43
          [] c = " " -> 32
          [] c = "\n" -> 10]

CodeOf(c) == CodeUnit[c]

(***************************************************************************)
(* JavaScript values.                                                      *)
(***************************************************************************)
Str(s) == [t |-> "string", s |-> s]
Bool(b) == [t |-> "boolean", b |-> b]
Null == [t |-> "null"]
Undefined == [t |-> "undefined"]
Arr(items) == [t |-> "array", items |-> items]
\* a number n/2 (so that 1.5 is a count), NaN, Infinity or -Infinity
Num(twice) == [t |-> "number", kind |-> "finite", twice |-> twice]
NaN == [t |-> "number", kind |-> "NaN", twice |-> 0]
PosInfinity == [t |-> "number", kind |-> "Infinity", twice |-> 0]
NegInfinity == [t |-> "number", kind |-> "-Infinity", twice |-> 0]
Integer(n) == Num(2 * n)
\* an integer of up to 48 bits, held as two 24-bit limbs (hi * 2^24 + lo), or NaN
Limb == 2 ^ 24
Big(neg, hi, lo) == [t |-> "number", kind |-> "big", neg |-> neg, hi |-> hi, lo |-> lo]
\* a Date object: its time value
Date(time) == [t |-> "Date", time |-> time]
\* what generateOrAbort() returns when it does not abort: an object whose
\* toString() gives text
UUID(text) == [t |-> "UUID", text |-> text]
\* an Error object: the literal part of its message and the interpolated value
Error(message, value) == [t |-> "Error", message |-> message, value |-> value]

\* how a call ends
Return(v) == [kind |-> "return", v |-> v]
Throw(e) == [kind |-> "throw", v |-> e]

(***************************************************************************)
(* RegExp: a pattern is ^ atoms $ with flags; an atom is a character class *)
(* (a set of code-unit ranges) repeated exactly n times.                   *)
(***************************************************************************)
HexClass == {<<"0", "9">>, <<"a", "f">>}
VariantClass == {<<"8", "8">>, <<"9", "9">>, <<"a", "a">>, <<"b", "b">>}
Lit(c) == {<<c, c>>}

\* the pattern between ^ and $:
\* [0-9a-f]{8}-[0-9a-f]{4}-7[0-9a-f]{3}-[89ab][0-9a-f]{3}-[0-9a-f]{12}
UUID7Atoms ==
    << [cls |-> HexClass, n |-> 8], [cls |-> Lit("-"), n |-> 1],
       [cls |-> HexClass, n |-> 4], [cls |-> Lit("-"), n |-> 1],
       [cls |-> Lit("7"), n |-> 1], [cls |-> HexClass, n |-> 3],
       [cls |-> Lit("-"), n |-> 1],
       [cls |-> VariantClass, n |-> 1], [cls |-> HexClass, n |-> 3],
       [cls |-> Lit("-"), n |-> 1],
       [cls |-> HexClass, n |-> 12] >>

\* Canonicalize of a code unit under the i flag (no u flag): toUpperCase
Canonicalize(k) == IF k >= 97 /\ k <= 122 THEN k - 32 ELSE k

\* CharacterSetMatcher: does ch belong to the class, with or without case folding
ClassMatches(cls, ch, ignoreCase) ==
    \E r \in cls :
        IF ignoreCase
        THEN \E k \in CodeOf(r[1])..CodeOf(r[2]) :
                 Canonicalize(k) = Canonicalize(CodeOf(ch))
        ELSE CodeOf(ch) >= CodeOf(r[1]) /\ CodeOf(ch) <= CodeOf(r[2])

\* the atoms unfolded into one class per character position
RECURSIVE Unfold(_)
Unfold(atoms) ==
    IF atoms = <<>> THEN <<>>
    ELSE [i \in 1..Head(atoms).n |-> Head(atoms).cls] \o Unfold(Tail(atoms))

\* a compiled expression ^atoms$: per character position the characters its
\* class accepts under the flags
RegExp(atoms, flags) ==
    LET classes == Unfold(atoms)
    IN  [accept |-> [i \in 1..Len(classes) |->
                        {c \in Alphabet : ClassMatches(classes[i], c, "i" \in flags)}],
         flags |-> flags]

\* the same pattern compiled with the g flag, which makes test() stateful
validateUUID7_Global == RegExp(UUID7Atoms, {"i", "g"})

\* private static readonly validateUUID7: RegExp = /^...$/i
validateUUID7 == RegExp(UUID7Atoms, {"i"})

\* ^atoms$ matched at index 0: every position is consumed by its class and the
\* input ends where the pattern ends ($ without the m flag: end of input only)
MatchesFromStart(R, S) ==
    /\ Len(S) = Len(R.accept)
    /\ \A i \in 1..Len(S) : S[i] \in R.accept[i]

\* RegExp.prototype.test = RegExpBuiltinExec: the search starts at lastIndex only
\* for a global or sticky expression, which also writes lastIndex back; ^ can
\* match at index 0 only
RegExpTest(R, S, li) ==
    LET stateful == ("g" \in R.flags) \/ ("y" \in R.flags)
        start == IF stateful THEN li ELSE 0
        found == start = 0 /\ MatchesFromStart(R, S)
    IN  [result |-> found,
         lastIndex |-> IF stateful THEN (IF found THEN Len(S) ELSE 0) ELSE li]

(***************************************************************************)
(* The operations.  Each is a function of its arguments and of the state   *)
(* it reads (li: validateUUID7.lastIndex) and yields how the call ends     *)
(* (out), the state it leaves (lastIndex) and the number of generator      *)
(* invocations it made (used).                                             *)
(***************************************************************************)
isValid(value, li) ==
    LET m == RegExpTest(validateUUID7, value.s, li)
    IN  [out |-> Return(Bool(m.result)), lastIndex |-> m.lastIndex, used |-> 0]

ToLowerCase(s) ==
    [i \in 1..Len(s) |->
        IF s[i] \in Range(UPPER) THEN LOWER[IndexOf(UPPER, s[i])] ELSE s[i]]

\* fromString as it would be if it normalised the text it returns
fromString_Lowercasing(value, li) ==
    LET m == RegExpTest(validateUUID7, value.s, li)
    IN  IF ~m.result
        THEN [out |-> Throw(Error("Invalid UUIDv7 format: ", value)),
              lastIndex |-> m.lastIndex, used |-> 0]
        ELSE [out |-> Return(Str(ToLowerCase(value.s))),
              lastIndex |-> m.lastIndex, used |-> 0]

fromString(value, li) ==
    LET m == RegExpTest(validateUUID7, value.s, li)
    IN  IF ~m.result
        THEN [out |-> Throw(Error("Invalid UUIDv7 format: ", value)),
              lastIndex |-> m.lastIndex, used |-> 0]
        ELSE [out |-> Return(value), lastIndex |-> m.lastIndex, used |-> 0]

\* tryFromString as it would be if it delegated to fromString without a catch
tryFromString_Throwing(value, li) == fromString(value, li)

tryFromString(value, li) ==
    LET r == isValid(value, li)
    IN  [out |-> IF r.out.v.b THEN Return(value) ELSE Return(Null),
         lastIndex |-> r.lastIndex, used |-> 0]


(***************************************************************************)
(* create and createMany.  g is what generator.generateOrAbort() returns   *)
(* to this call, outs what it returns to the successive calls.             *)
(***************************************************************************)
\* generateOrAbort()?.toString() ?? ""
TextOrEmpty(g) ==
    IF g.t \in {"undefined", "null"} THEN Str(<<>>)
    ELSE IF g.text.t \in {"undefined", "null"} THEN Str(<<>>) ELSE g.text

\* !value of a string
Falsy(value) == value.s = <<>>

\* create as it would be without the structural test of the generator's text
create_Unchecked(g, li) ==
    LET value == TextOrEmpty(g)
    IN  IF Falsy(value)
        THEN [out |-> Throw(Error("Invalid UUIDv7 format: ", value)),
              lastIndex |-> li, used |-> 1]
        ELSE [out |-> Return(value), lastIndex |-> li, used |-> 1]

\* create as it would be if it asked the generator twice, once for the test and
\* once for the value
create_TwoCalls(g, li) ==
    LET value == TextOrEmpty(g)
        m == IF Falsy(value) THEN [result |-> FALSE, lastIndex |-> li]
             ELSE RegExpTest(validateUUID7, value.s, li)
    IN  IF Falsy(value) \/ ~m.result
        THEN [out |-> Throw(Error("Invalid UUIDv7 format: ", value)),
              lastIndex |-> m.lastIndex, used |-> 2]
        ELSE [out |-> Return(value), lastIndex |-> m.lastIndex, used |-> 2]

create(g, li) ==
    LET value == TextOrEmpty(g)
        \* || evaluates the test only when value is not empty
        m == IF Falsy(value) THEN [result |-> FALSE, lastIndex |-> li]
             ELSE RegExpTest(validateUUID7, value.s, li)
    IN  IF Falsy(value) \/ ~m.result
        THEN [out |-> Throw(Error("Invalid UUIDv7 format: ", value)),
              lastIndex |-> m.lastIndex, used |-> 1]
        ELSE [out |-> Return(value), lastIndex |-> m.lastIndex, used |-> 1]

\* count < 0
LessThanZero(count) ==
    \/ count.kind = "-Infinity"
    \/ count.kind = "finite" /\ count.twice < 0

\* Number.isInteger(count)
NumberIsInteger(count) == count.kind = "finite" /\ count.twice % 2 = 0

\* ToLength of the length property of { length: count }
ToLength(count) ==
    IF count.kind = "finite" /\ count.twice > 0 THEN count.twice \div 2 ELSE 0

\* Array.from(arrayLike, mapFn): the elements k = 1, 2, ... are mapFn's results in
\* order; the first call that throws ends the whole construction
RECURSIVE ArrayFrom(_, _, _, _, _)
ArrayFrom(len, outs, k, items, li) ==
    IF k > len
    THEN [out |-> Return(Arr(items)), lastIndex |-> li, used |-> k - 1]
    ELSE LET r == create(outs[k], li)
         IN  IF r.out.kind = "throw"
             THEN [out |-> r.out, lastIndex |-> r.lastIndex, used |-> k]
             ELSE ArrayFrom(len, outs, k + 1, Append(items, r.out.v), r.lastIndex)

\* createMany as it would be without the Number.isInteger test
createMany_NoIntegerTest(count, outs, li) ==
    IF LessThanZero(count)
    THEN [out |-> Throw(Error("Count must be a non-negative integer: ", count)),
          lastIndex |-> li, used |-> 0]
    ELSE ArrayFrom(ToLength(count), outs, 1, <<>>, li)

\* createMany as it would be if it kept what was produced before a failure
createMany_Partial(count, outs, li) ==
    IF LessThanZero(count) \/ ~NumberIsInteger(count)
    THEN [out |-> Throw(Error("Count must be a non-negative integer: ", count)),
          lastIndex |-> li, used |-> 0]
    ELSE LET r == ArrayFrom(ToLength(count), outs, 1, <<>>, li)
         IN  IF r.out.kind = "throw"
             THEN [r EXCEPT !.out =
                      Return(Arr([i \in 1..(r.used - 1) |-> TextOrEmpty(outs[i])]))]
             ELSE r

createMany(count, outs, li) ==
    IF LessThanZero(count) \/ ~NumberIsInteger(count)
    THEN [out |-> Throw(Error("Count must be a non-negative integer: ", count)),
          lastIndex |-> li, used |-> 0]
    ELSE ArrayFrom(ToLength(count), outs, 1, <<>>, li)

(***************************************************************************)
(* compare: the relational operators on two strings compare code units.    *)
(***************************************************************************)
\* IsLessThan(x, y) for strings: a proper prefix is smaller; otherwise the first
\* position where they differ decides, by code unit
RECURSIVE StringLess(_, _)
StringLess(x, y) ==
    IF y = <<>> THEN FALSE
    ELSE IF x = <<>> THEN TRUE
    ELSE IF Head(x) = Head(y) THEN StringLess(Tail(x), Tail(y))
    ELSE CodeOf(Head(x)) < CodeOf(Head(y))

compare(a, b, li) ==
    [out |-> IF StringLess(a.s, b.s) THEN Return(Integer(-1))
             ELSE IF StringLess(b.s, a.s) THEN Return(Integer(1))
             ELSE Return(Integer(0)),
     lastIndex |-> li, used |-> 0]

(***************************************************************************)
(* getTimestamp.                                                           *)
(***************************************************************************)
Min(a, b) == IF a < b THEN a ELSE b

\* String.prototype.slice(from, to) with 0 <= from, to
Slice(s, from, to) ==
    LET f == Min(from, Len(s))
        e == Min(to, Len(s))
    IN  IF f >= e THEN <<>> ELSE SubSeq(s, f + 1, e)

\* the value of a character as a digit, 36 when it is none
DigitOf(c) ==
    LET k == CodeOf(c)
    IN  IF k >= 48 /\ k <= 57 THEN k - 48
        ELSE IF k >= 97 /\ k <= 122 THEN k - 87
        ELSE IF k >= 65 /\ k <= 90 THEN k - 55
        ELSE 36

IsWhiteSpace(c) == c \in {" ", "\n"}

RECURSIVE TrimStart(_)
TrimStart(s) ==
    IF s # <<>> /\ IsWhiteSpace(Head(s)) THEN TrimStart(Tail(s)) ELSE s

\* the digits of s before its first character that is no digit of the radix,
\* accumulated left to right
RECURSIVE Accumulate(_, _, _, _, _)
Accumulate(s, radix, hi, lo, n) ==
    IF s = <<>> \/ DigitOf(Head(s)) >= radix
    THEN [n |-> n, hi |-> hi, lo |-> lo]
    ELSE LET x == lo * radix + DigitOf(Head(s))
         IN  Accumulate(Tail(s), radix, hi * radix + x \div Limb, x % Limb, n + 1)

\* parseInt(string, 16): leading white space, a sign and 0x are skipped, the
\* longest prefix of hexadecimal digits is the value, NaN when there is none
ParseInt16(string) ==
    LET s1 == TrimStart(string)
        neg == s1 # <<>> /\ Head(s1) = "-"
        s2 == IF s1 # <<>> /\ Head(s1) \in {"-", "+"} THEN Tail(s1) ELSE s1
        s3 == IF Len(s2) >= 2 /\ s2[1] = "0" /\ s2[2] \in {"x", "X"}
              THEN Tail(Tail(s2)) ELSE s2
        a == Accumulate(s3, 16, 0, 0, 0)
    IN  IF a.n = 0 THEN NaN ELSE Big(neg, a.hi, a.lo)

\* TimeClip: NaN stays NaN, -0 becomes +0 (48 bits are within the Date range)
TimeClip(time) ==
    IF time.kind = "NaN" THEN NaN
    ELSE IF time.hi = 0 /\ time.lo = 0 THEN Big(FALSE, 0, 0) ELSE time

\* getTimestamp as it would be with the second slice one position to the left
getTimestamp_ShiftedSlice(uuid, li) ==
    LET timestampHex == Slice(uuid.s, 0, 8) \o Slice(uuid.s, 8, 12)
        timestampMs == ParseInt16(timestampHex)
    IN  [out |-> Return(Date(TimeClip(timestampMs))), lastIndex |-> li, used |-> 0]

getTimestamp(uuid, li) ==
    LET timestampHex == Slice(uuid.s, 0, 8) \o Slice(uuid.s, 9, 13)
        timestampMs == ParseInt16(timestampHex)
    IN  [out |-> Return(Date(TimeClip(timestampMs))), lastIndex |-> li, used |-> 0]

(***************************************************************************)
(* Inputs.                                                                 *)
(***************************************************************************)
KnownLiteral ==
    <<"0","1","9","2","3","f","4","a","-","7","b","3","d","-","7","1","2","3","-",
      "8","4","5","6","-","4","2","6","6","1","4","1","7","4","0","0","0">>
\* the same millisecond as KnownLiteral, other counter and random bits
SameMs ==
    <<"0","1","9","2","3","f","4","a","-","7","b","3","d","-","7","1","2","4","-",
      "9","a","b","c","-","d","e","f","0","1","2","3","4","5","6","7","8">>
\* the millisecond after
NextMs ==
    <<"0","1","9","2","3","f","4","a","-","7","b","3","e","-","7","0","0","0","-",
      "a","0","0","0","-","0","1","2","3","4","5","6","7","8","9","a","b">>
NotAUuid == <<"n","o","t","-","a","-","u","u","i","d">>

Subst(s, p, c) == [s EXCEPT ![p] = c]

ToUpperCase(s) ==
    [i \in 1..Len(s) |->
        IF s[i] \in Range(LOWER) THEN UPPER[IndexOf(LOWER, s[i])] ELSE s[i]]

\* the timestamp digits all set to c
WithTimestamp(s, c) == [i \in 1..Len(s) |-> IF i \in (1..8) \cup (10..13) THEN c ELSE s[i]]

\* characters put in place of each character of KnownLiteral in turn
SubstChars == {"-", "7", "B", "g"}

\* the positions they are put at: the ends of each group, the hyphens, the
\* version and the variant
SubstPositions == {1, 8, 9, 10, 13, 14, 15, 16, 18, 19, 20, 21, 23, 24, 25, 36}

\* the strings handed to fromString, tryFromString and getTimestamp
Inputs ==
    {KnownLiteral, SameMs, NextMs, ToUpperCase(KnownLiteral), ToUpperCase(SameMs),
     WithTimestamp(KnownLiteral, "0"), WithTimestamp(KnownLiteral, "f"),
     WithTimestamp(KnownLiteral, "F"),
     NotAUuid, <<>>, SubSeq(KnownLiteral, 1, 35), SubSeq(KnownLiteral, 2, 36),
     KnownLiteral \o <<"0">>, KnownLiteral \o <<"\n">>, <<" ">> \o KnownLiteral,
     KnownLiteral \o KnownLiteral}
    \cup {Subst(KnownLiteral, p, c) : p \in SubstPositions, c \in SubstChars}
    \cup {Subst(KnownLiteral, 20, c) : c \in {"8", "9", "a", "b", "A", "c", "C", "0"}}
    \cup {Subst(KnownLiteral, 2, "x"), Subst(KnownLiteral, 1, "G")}

\* the strings handed to isValid: these, and KnownLiteral with every one of its
\* characters replaced in turn
ValidityInputs ==
    Inputs \cup {Subst(KnownLiteral, p, c) : p \in 1..Len(KnownLiteral), c \in SubstChars}

\* the typed identifiers handed to compare: both letter cases in the timestamp
Typed ==
    {KnownLiteral, SameMs, NextMs, ToUpperCase(KnownLiteral),
     Subst(KnownLiteral, 8, "B"), Subst(KnownLiteral, 8, "A"),
     Subst(KnownLiteral, 6, "E"), Subst(KnownLiteral, 12, "9"),
     WithTimestamp(KnownLiteral, "0"), WithTimestamp(KnownLiteral, "f"),
     WithTimestamp(KnownLiteral, "F")}

\* what the external generator may hand back: an abort, an object whose text is
\* empty or malformed, and well-formed identifiers
GenOutputs ==
    {Undefined, UUID(Str(<<>>)), UUID(Str(Subst(KnownLiteral, 15, "4"))),
     UUID(Str(KnownLiteral)), UUID(Str(SameMs)), UUID(Str(NextMs))}

\* the counts handed to createMany: -1.5, -1, -0.5, 0.5, 1.5, the integers
\* 0..MaxCount, NaN and the infinities
Counts ==
    {Num(h) : h \in {-3, -2, -1, 1, 3}} \cup {Integer(n) : n \in 0..MaxCount}
    \cup {NaN, PosInfinity, NegInfinity}

(***************************************************************************)
(* State.                                                                  *)
(***************************************************************************)
VARIABLES
    lastIndex,  \* validateUUID7.lastIndex
    genCalls,   \* how often generator.generateOrAbort() has been invoked
    last        \* the last call: operation, arguments, generator outputs, outcome

vars == <<lastIndex, genCalls, last>>

\* a call of op with args, during which the generator handed back drawn, ending as
\* r says
Call(op, args, drawn, r) ==
    /\ genCalls + r.used <= MaxCalls
    /\ last' = [op |-> op, args |-> args, drawn |-> drawn, out |-> r.out]
    /\ lastIndex' = r.lastIndex
    /\ genCalls' = genCalls + r.used

Init ==
    /\ lastIndex = 0
    /\ genCalls = 0
    /\ last = [op |-> "none", args |-> <<>>, drawn |-> <<>>, out |-> Return(Undefined)]

Create ==
    \E g \in GenOutputs : Call("create", <<>>, <<g>>, create(g, lastIndex))

CreateMany ==
    \E count \in Counts :
        \E outs \in [1..ToLength(count) -> GenOutputs] :
            LET r == createMany(count, outs, lastIndex)
            IN  Call("createMany", <<count>>, SubSeq(outs, 1, r.used), r)

Compare ==
    \E a \in Typed, b \in Typed :
        Call("compare", <<Str(a), Str(b)>>, <<>>, compare(Str(a), Str(b), lastIndex))

FromString ==
    \E s \in Inputs : Call("fromString", <<Str(s)>>, <<>>, fromString(Str(s), lastIndex))

TryFromString ==
    \E s \in Inputs :
        Call("tryFromString", <<Str(s)>>, <<>>, tryFromString(Str(s), lastIndex))

GetTimestamp ==
    \E s \in Inputs :
        Call("getTimestamp", <<Str(s)>>, <<>>, getTimestamp(Str(s), lastIndex))

IsValid ==
    \E s \in ValidityInputs :
        Call("isValid", <<Str(s)>>, <<>>, isValid(Str(s), lastIndex))

Next ==
    \/ Create
    \/ CreateMany
    \/ Compare
    \/ FromString
    \/ TryFromString
    \/ GetTimestamp
    \/ IsValid

Spec == Init /\ [][Next]_vars
(***************************************************************************)
(* The structural pattern and the embedded timestamp as the specification  *)
(* states them, position by position (positions counted from 0 there, from *)
(* 1 here).                                                                *)
(***************************************************************************)
HexDigits ==
    {"0","1","2","3","4","5","6","7","8","9",
     "a","b","c","d","e","f","A","B","C","D","E","F"}

\* 36 characters, '-' at 8, 13, 18, 23, version nibble 7 at 14, variant nibble
\* 8, 9, a or b (in either letter case, as every other hexadecimal digit) at 19,
\* a hexadecimal digit everywhere else
MatchesPattern(s) ==
    /\ Len(s) = 36
    /\ \A p \in 1..36 :
          IF p \in {9, 14, 19, 24} THEN s[p] = "-"
          ELSE IF p = 15 THEN s[p] = "7"
          ELSE IF p = 20 THEN s[p] \in {"8", "9", "a", "b", "A", "B"}
          ELSE s[p] \in HexDigits

HexValue ==
    ("0" :> 0) @@ ("1" :> 1) @@ ("2" :> 2) @@ ("3" :> 3) @@ ("4" :> 4) @@
    ("5" :> 5) @@ ("6" :> 6) @@ ("7" :> 7) @@ ("8" :> 8) @@ ("9" :> 9) @@
    ("a" :> 10) @@ ("b" :> 11) @@ ("c" :> 12) @@ ("d" :> 13) @@ ("e" :> 14) @@
    ("f" :> 15) @@ ("A" :> 10) @@ ("B" :> 11) @@ ("C" :> 12) @@ ("D" :> 13) @@
    ("E" :> 14) @@ ("F" :> 15)

\* the base-16 integer written by six hexadecimal digits
SixDigits(s, p) ==
    HexValue[s[p]] * 16^5 + HexValue[s[p + 1]] * 16^4 + HexValue[s[p + 2]] * 16^3
    + HexValue[s[p + 3]] * 16^2 + HexValue[s[p + 4]] * 16 + HexValue[s[p + 5]]

\* the 12 digits at positions 0..7 and 9..12
TimestampDigits(s) == SubSeq(s, 1, 8) \o SubSeq(s, 10, 13)

\* the generator handed back a well-formed identifier
WellFormed(g) == g.t = "UUID" /\ g.text.t = "string" /\ MatchesPattern(g.text.s)

\* an integer count >= 0
NonNegativeInteger(count) ==
    count.kind = "finite" /\ count.twice >= 0 /\ count.twice % 2 = 0

\* the time value getTimestamp gives for a string
TimeOf(s) == getTimestamp(Str(s), lastIndex).out.v.time

\* x < y for two time values that are numbers
TimeLess(x, y) == x.hi < y.hi \/ (x.hi = y.hi /\ x.lo < y.lo)

IsValidNow(v) == isValid(v, lastIndex).out = Return(Bool(TRUE))

(***************************************************************************)
(* The claims.                                                             *)
(***************************************************************************)
\* C1: whatever calls were made before, isValid(v) returns true if and only if v
\* has exactly 36 characters, '-' at positions 8, 13, 18 and 23, '7' at position
\* 14, a variant nibble 8, 9, a or b at position 19 and a hexadecimal digit at
\* every other position; it returns a boolean and never throws.
C1_IsValidIffPattern ==
    last.op = "isValid" => last.out = Return(Bool(MatchesPattern(last.args[1].s)))

\* isValid accepted an identifier after the generator and the expression had
\* been used by earlier calls
C1_Witness ==
    /\ last.op = "isValid"
    /\ last.out = Return(Bool(TRUE))
    /\ genCalls > 0

\* C2: whatever the generator hands back, create() either returns exactly the
\* generator's text, and isValid holds of it, or throws its error; it never
\* returns a value isValid rejects.
C2_CreateReturnsValidOrThrows ==
    last.op = "create" =>
        LET g == last.drawn[1]
        IN  \/ /\ last.out.kind = "return"
               /\ g.t = "UUID"
               /\ last.out.v = g.text
               /\ IsValidNow(last.out.v)
            \/ /\ last.out.kind = "throw"
               /\ last.out.v.t = "Error"
               /\ last.out.v.message = "Invalid UUIDv7 format: "
               /\ ~WellFormed(g)

\* create threw for a generator output that is text, but malformed
C2_Witness ==
    /\ last.op = "create"
    /\ last.out.kind = "throw"
    /\ last.drawn[1].t = "UUID"
    /\ Len(last.drawn[1].text.s) = 36

\* C3: on a string that does not match the pattern isValid is false, fromString
\* throws its error carrying the string and tryFromString returns null without
\* throwing; on a string that matches, isValid is true and fromString and
\* tryFromString return the same value.
C3_ParsingEntryPointsAgree ==
    last.op \in {"isValid", "fromString", "tryFromString"} =>
        LET v == last.args[1]
            ok == MatchesPattern(v.s)
            iv == isValid(v, lastIndex).out
            fs == fromString(v, lastIndex).out
            tf == tryFromString(v, lastIndex).out
        IN  /\ last.op = "isValid" => last.out = Return(Bool(ok))
            /\ last.op = "fromString" =>
                  last.out = IF ok THEN Return(v)
                             ELSE Throw(Error("Invalid UUIDv7 format: ", v))
            /\ last.op = "tryFromString" =>
                  last.out = IF ok THEN Return(v) ELSE Return(Null)
            /\ IF ok
               THEN iv = Return(Bool(TRUE)) /\ fs.kind = "return" /\ tf = fs
               ELSE /\ iv = Return(Bool(FALSE))
                    /\ fs.kind = "throw"
                    /\ tf = Return(Null)

\* tryFromString returned null for a string of the right length that does not
\* match
C3_Witness ==
    /\ last.op = "tryFromString"
    /\ Len(last.args[1].s) = 36
    /\ ~MatchesPattern(last.args[1].s)
    /\ last.out = Return(Null)

\* C4: for a string s that matches the pattern, in any letter case, fromString(s)
\* returns s itself, character for character, and isValid holds of the result.
C4_FromStringRoundTrip ==
    (last.op = "fromString" /\ MatchesPattern(last.args[1].s)) =>
        /\ last.out = Return(last.args[1])
        /\ IsValidNow(last.out.v)

\* fromString returned an identifier written with upper-case letters
C4_Witness ==
    /\ last.op = "fromString"
    /\ last.args[1].s = ToUpperCase(KnownLiteral)
    /\ last.args[1].s # KnownLiteral
    /\ last.out.kind = "return"

\* C5: for a structurally valid identifier getTimestamp does not throw and returns
\* the Date whose time value is the base-16 integer written by the 12 digits at
\* positions 0..7 and 9..12, a value in 0 .. 2^48 - 1; for
\* 01923f4a-7b3d-7123-8456-426614174000 that is 0x01923f4a7b3d.
C5_TimestampIsFirst48Bits ==
    (last.op = "getTimestamp" /\ MatchesPattern(last.args[1].s)) =>
        LET d == TimestampDigits(last.args[1].s)
        IN  /\ last.out.kind = "return"
            /\ last.out.v.t = "Date"
            /\ last.out.v.time = Big(FALSE, SixDigits(d, 1), SixDigits(d, 7))
            /\ last.out.v.time.hi \in 0..(Limb - 1)
            /\ last.out.v.time.lo \in 0..(Limb - 1)
            /\ last.args[1].s = KnownLiteral =>
                  \* 0x01923f and 0x4a7b3d
                  last.out.v.time = Big(FALSE, 102975, 4881213)

\* getTimestamp decoded the known literal
C5_Witness ==
    /\ last.op = "getTimestamp"
    /\ last.args[1].s = KnownLiteral
    /\ last.out.v.time.kind = "big"
    /\ last.out.v.time.hi = 102975

\* C6: for any two typed identifiers a and b, however they were obtained, with
\* getTimestamp(a) < getTimestamp(b): compare(a, b) = -1 and compare(b, a) = 1.
C6_CompareIsChronological ==
    (/\ last.op = "compare"
     /\ MatchesPattern(last.args[1].s)
     /\ MatchesPattern(last.args[2].s)) =>
        LET a == last.args[1].s
            b == last.args[2].s
        IN  /\ TimeLess(TimeOf(a), TimeOf(b)) => last.out = Return(Integer(-1))
            /\ TimeLess(TimeOf(b), TimeOf(a)) => last.out = Return(Integer(1))

\* The order compare gives is the chronological one between identifiers whose
\* timestamp digits use one letter case: all letters lower-case in both, or all
\* upper-case in both.
OneLetterCase(a, b) ==
    LET letters == {c \in Range(TimestampDigits(a)) \cup Range(TimestampDigits(b)) :
                       c \notin Range(DIGITS)}
    IN  letters \subseteq Range(LOWER) \/ letters \subseteq Range(UPPER)

CompareIsChronologicalInOneCase ==
    (/\ last.op = "compare"
     /\ MatchesPattern(last.args[1].s)
     /\ MatchesPattern(last.args[2].s)
     /\ OneLetterCase(last.args[1].s, last.args[2].s)) =>
        LET a == last.args[1].s
            b == last.args[2].s
        IN  /\ TimeLess(TimeOf(a), TimeOf(b)) => last.out = Return(Integer(-1))
            /\ TimeLess(TimeOf(b), TimeOf(a)) => last.out = Return(Integer(1))

\* C7: createMany(count) with an integer count >= 0 and a generator that keeps
\* handing back well-formed identifiers returns an array of exactly count
\* elements, each valid (the empty array for 0); with a negative or non-integer
\* count it throws its argument error, carrying the count, and returns nothing.
C7_CreateManyCount ==
    last.op = "createMany" =>
        LET count == last.args[1]
        IN  /\ (/\ NonNegativeInteger(count)
                /\ \A k \in 1..Len(last.drawn) : WellFormed(last.drawn[k])) =>
                  /\ last.out.kind = "return"
                  /\ last.out.v.t = "array"
                  /\ 2 * Len(last.out.v.items) = count.twice
                  /\ \A i \in 1..Len(last.out.v.items) :
                        IsValidNow(last.out.v.items[i])
            /\ ~NonNegativeInteger(count) =>
                  last.out =
                     Throw(Error("Count must be a non-negative integer: ", count))

\* createMany(2) returned two identifiers
C7_Witness ==
    /\ last.op = "createMany"
    /\ last.args[1] = Integer(2)
    /\ last.out.kind = "return"
    /\ Len(last.out.v.items) = 2

\* C8: when the k-th internal create() of createMany(count) fails, for any k in
\* 1..count, the call throws that create()'s error and hands the caller none of
\* the k-1 identifiers produced before; an array is returned only when all count
\* invocations succeeded.
C8_CreateManyAllOrNothing ==
    (last.op = "createMany" /\ NonNegativeInteger(last.args[1])) =>
        LET n == Len(last.drawn)
            failed == {k \in 1..n : ~WellFormed(last.drawn[k])}
        IN  /\ failed # {} =>
                  /\ last.out.kind = "throw"
                  /\ last.out.v =
                        Error("Invalid UUIDv7 format: ", TextOrEmpty(last.drawn[n]))
                  /\ failed = {n}
            /\ last.out.kind = "return" =>
                  /\ failed = {}
                  /\ 2 * n = last.args[1].twice
                  /\ Len(last.out.v.items) = n

\* createMany(2) threw at its second create(), after one identifier had been
\* produced
C8_Witness ==
    /\ last.op = "createMany"
    /\ last.args[1] = Integer(2)
    /\ Len(last.drawn) = 2
    /\ WellFormed(last.drawn[1])
    /\ last.out.kind = "throw"

\* C9: the identifiers one successful createMany(count) returns carry pairwise
\* different embedded timestamps.
C9_BatchTimestampsDiffer ==
    (last.op = "createMany" /\ last.out.kind = "return") =>
        \A i, j \in 1..Len(last.out.v.items) :
            i # j => TimeOf(last.out.v.items[i].s) # TimeOf(last.out.v.items[j].s)

\* C10: create() invokes the generator exactly once, also when it then throws; a
\* createMany(count) that returns invoked it exactly count times and returns the
\* values in the order of the invocations; createMany with an invalid count
\* invokes it zero times; fromString, tryFromString, isValid, getTimestamp and
\* compare neither invoke it nor change any state.
C10_GeneratorUse ==
    [][/\ last'.op = "create" =>
             genCalls' = genCalls + 1 /\ Len(last'.drawn) = 1
       /\ (last'.op = "createMany" /\ last'.out.kind = "return") =>
             /\ 2 * (genCalls' - genCalls) = last'.args[1].twice
             /\ Len(last'.drawn) = genCalls' - genCalls
             /\ last'.out.v.items =
                   [i \in 1..Len(last'.drawn) |-> last'.drawn[i].text]
       /\ (last'.op = "createMany" /\ ~NonNegativeInteger(last'.args[1])) =>
             genCalls' = genCalls /\ last'.drawn = <<>>
       /\ last'.op \in {"fromString", "tryFromString", "isValid", "getTimestamp",
                        "compare"} =>
             /\ genCalls' = genCalls
             /\ lastIndex' = lastIndex
             /\ last'.drawn = <<>>]_vars

\* createMany(2) returned two different identifiers after exactly two invocations
C10_Witness ==
    /\ last.op = "createMany"
    /\ last.out.kind = "return"
    /\ Len(last.out.v.items) = 2
    /\ last.out.v.items[1] # last.out.v.items[2]
    /\ genCalls = 2
====
